---- MODULE Spec2Model ----
(***************************************************************************)
(* Model of serial.c of BioloidCControl: the serial receive ring buffer,   *)
(* the USART1 receive interrupt handler and the polled command dispatcher  *)
(* SerialReceiveCommand.                                                   *)
(*                                                                         *)
(* Bytes are the integers 0..255.  The build treats plain char as unsigned *)
(* (the project is an Atmel Studio project, whose toolchain passes         *)
(* -funsigned-char); the tests "c == 0xFF" of SerialReceiveCommand are     *)
(* written for that build, and a char therefore holds 0..255 here.         *)
(***************************************************************************)
EXTENDS Integers, Sequences, FiniteSets, TLC

(***************************************************************************)
(* Constants of the program.                                               *)
(***************************************************************************)
\* Capacity of gbSerialBuffer.  The macro is set in a header that is not
\* among the sources; the model runs the code with a small capacity.
MAXNUM_SERIALBUFF == 7

\* '\r', the frame terminator tested by the receive handler.
CR == 13
\* '\n', which std_putchar expands to CR LF.
LF == 10
\* ' ', the padding character.
SPACE == 32
\* 0xFF: the end-of-frame byte and the value serial_get_queue returns on an
\* empty buffer.
EMPTY == 255
\* "0xFF means no match found".
COMMAND_NOT_FOUND == 255
\* The ordinal reserved for the motion page command (the table's "M   ").
COMMAND_MOTIONPAGE == 19
\* The number of entries the table scan covers.
NUMBER_OF_COMMANDS == 20

Byte == 0..255

(***************************************************************************)
(* The ring buffer: gbSerialBuffer, gbSerialBufferHead, gbSerialBufferTail.*)
(* A queue value q is a record [buf, head, tail]; buf is indexed from 0.   *)
(***************************************************************************)
Slots == 0..(MAXNUM_SERIALBUFF - 1)

\* A mutant of serial_get_qstate: the wrapped case is computed as if the
\* occupied run never passed the end of the storage.
qstate_nowrap(head, tail) ==
    IF head = tail THEN 0
    ELSE IF head < tail THEN tail - head
    ELSE head - tail

\* int serial_get_qstate(void): the number of bytes in the buffer.
serial_get_qstate(head, tail) ==
    IF head = tail THEN 0
    ELSE IF head < tail THEN tail - head
    ELSE MAXNUM_SERIALBUFF - (head - tail)

\* A mutant of serial_put_queue: the full test is off by one, so the
\* reserved slot is written too.
put_queue_overfill(q, data) ==
    IF serial_get_qstate(q.head, q.tail) = MAXNUM_SERIALBUFF
    THEN q
    ELSE [q EXCEPT !.buf[q.tail] = data,
                   !.tail = IF q.tail = MAXNUM_SERIALBUFF - 1 THEN 0
                            ELSE q.tail + 1]

\* A mutant of serial_put_queue: a byte that finds the buffer full is stored
\* over the oldest one, the head moving on with the tail.
put_queue_overwrite(q, data) ==
    IF serial_get_qstate(q.head, q.tail) = MAXNUM_SERIALBUFF - 1
    THEN [q EXCEPT !.buf[q.tail] = data,
                   !.tail = IF q.tail = MAXNUM_SERIALBUFF - 1 THEN 0
                            ELSE q.tail + 1,
                   !.head = IF q.head = MAXNUM_SERIALBUFF - 1 THEN 0
                            ELSE q.head + 1]
    ELSE [q EXCEPT !.buf[q.tail] = data,
                   !.tail = IF q.tail = MAXNUM_SERIALBUFF - 1 THEN 0
                            ELSE q.tail + 1]

\* void serial_put_queue(unsigned char data): the byte is ignored when the
\* buffer holds MAXNUM_SERIALBUFF-1 bytes, else stored at the tail, which
\* then moves on (back to 0 at the end of the storage).
serial_put_queue(q, data) ==
    IF serial_get_qstate(q.head, q.tail) = MAXNUM_SERIALBUFF - 1
    THEN q
    ELSE [q EXCEPT !.buf[q.tail] = data,
                   !.tail = IF q.tail = MAXNUM_SERIALBUFF - 1 THEN 0
                            ELSE q.tail + 1]

\* A mutant of serial_get_queue: the head does not wrap at the end of the
\* storage but one slot early.
get_queue_earlywrap(q) ==
    IF q.head = q.tail
    THEN [q |-> q, data |-> EMPTY]
    ELSE [q |-> [q EXCEPT !.head = IF q.head >= MAXNUM_SERIALBUFF - 2 THEN 0
                                   ELSE q.head + 1],
          data |-> q.buf[q.head]]

\* unsigned char serial_get_queue(void): 0xFF when the buffer is empty, else
\* the byte at the head, which then moves on.  The result is the record
\* [q |-> the queue afterwards, data |-> the returned byte].
serial_get_queue(q) ==
    IF q.head = q.tail
    THEN [q |-> q, data |-> EMPTY]
    ELSE [q |-> [q EXCEPT !.head = IF q.head = MAXNUM_SERIALBUFF - 1 THEN 0
                                   ELSE q.head + 1],
          data |-> q.buf[q.head]]

(***************************************************************************)
(* Output to the serial port.  A write is the sequence of bytes stored to  *)
(* the data register UDR1, in order.                                       *)
(***************************************************************************)
\* void serial_write(pData, numbyte): the bytes are sent in order, each
\* after the data register has emptied.
serial_write(pData) == pData

\* int std_putchar(char c, FILE*): a newline is replaced with CR+LF.
std_putchar(c) ==
    IF c = LF THEN serial_write(<<CR, LF>>) ELSE serial_write(<<c>>)

\* The bytes printf sends for a string: every character goes through
\* std_putchar, the put function of the device opened by fdevopen.
RECURSIVE printf_chars(_)
printf_chars(str) ==
    IF str = <<>> THEN <<>>
    ELSE std_putchar(Head(str)) \o printf_chars(Tail(str))

\* The characters printf's %i produces for a value 0..255.
RECURSIVE printf_int(_)
printf_int(n) ==
    IF n < 10 THEN <<48 + n>>
    ELSE printf_int(n \div 10) \o <<48 + (n % 10)>>

(***************************************************************************)
(* The program state as a record: the ring buffer, the flag set by the     *)
(* interrupt handler and the command state shared with the motion engine.  *)
(***************************************************************************)
Queue(s) == [buf |-> s.buf, head |-> s.head, tail |-> s.tail]

WithQueue(s, q) == [s EXCEPT !.buf = q.buf, !.head = q.head, !.tail = q.tail]

\* void serial_init(long baudrate): head and tail 0, commands and flag
\* reset; the buffer and the motion pages are zero-initialised globals.
serial_init ==
    [buf  |-> [i \in Slots |-> 0], head |-> 0, tail |-> 0,
     flag_receive_ready   |-> 0,
     bioloid_command      |-> 0,
     last_bioloid_command |-> 0,
     current_motion_page  |-> 0,
     last_motion_page     |-> 0]

\* A mutant of USART1_RX_vect: a byte is echoed only when the buffer had
\* room for it.
rx_vect_echo_if_stored(s, c) ==
    IF c = CR
    THEN [s  |-> [WithQueue(s, serial_put_queue(Queue(s), EMPTY))
                    EXCEPT !.flag_receive_ready = 1],
          tx |-> std_putchar(LF) \o std_putchar(SPACE)]
    ELSE [s  |-> WithQueue(s, serial_put_queue(Queue(s), c)),
          tx |-> IF serial_put_queue(Queue(s), c) = Queue(s) THEN <<>>
                 ELSE std_putchar(c)]

\* SIGNAL(USART1_RX_vect) for the received byte c.  The result is the
\* record [s |-> the state afterwards, tx |-> the bytes echoed].
USART1_RX_vect(s, c) ==
    IF c = CR
    THEN [s  |-> [WithQueue(s, serial_put_queue(Queue(s), EMPTY))
                    EXCEPT !.flag_receive_ready = 1],
          tx |-> std_putchar(LF) \o std_putchar(SPACE)]
    ELSE [s  |-> WithQueue(s, serial_put_queue(Queue(s), c)),
          tx |-> std_putchar(c)]

(***************************************************************************)
(* The command table, COMMANDSTR0..COMMANDSTR19 (ASCII codes).             *)
(***************************************************************************)
COMMANDSTR_POINTER == <<
    <<83, 84, 79, 80>>,  \*  0 "STOP"
    <<87, 70, 32, 32>>,  \*  1 "WF  "
    <<87, 66, 32, 32>>,  \*  2 "WB  "
    <<87, 76, 84, 32>>,  \*  3 "WLT "
    <<87, 82, 84, 32>>,  \*  4 "WRT "
    <<87, 76, 83, 32>>,  \*  5 "WLS "
    <<87, 82, 83, 32>>,  \*  6 "WRS "
    <<87, 70, 76, 83>>,  \*  7 "WFLS"
    <<87, 70, 82, 83>>,  \*  8 "WFRS"
    <<87, 66, 76, 83>>,  \*  9 "WBLS"
    <<87, 66, 82, 83>>,  \* 10 "WBRS"
    <<87, 65, 76, 32>>,  \* 11 "WAL "
    <<87, 65, 82, 32>>,  \* 12 "WAR "
    <<87, 70, 76, 84>>,  \* 13 "WFLT"
    <<87, 70, 82, 84>>,  \* 14 "WFRT"
    <<87, 66, 76, 84>>,  \* 15 "WBLT"
    <<87, 66, 82, 84>>,  \* 16 "WBRT"
    <<83, 73, 84, 32>>,  \* 17 "SIT "
    <<66, 65, 76, 32>>,  \* 18 "BAL "
    <<77, 32, 32, 32>>   \* 19 "M   "
    >>

\* The literal parts of the three acknowledgment formats.
ACK_MOTIONPAGE == <<32, 45, 32, 77, 111, 116, 105, 111, 110, 80, 97, 103, 101,
                    67, 111, 109, 109, 97, 110, 100, 32>>  \* " - MotionPageCommand "
ACK_COMMAND == <<32, 45, 32, 67, 111, 109, 109, 97, 110, 100, 32, 35, 32>>
                                                           \* " - Command # "
ACK_UNKNOWN == <<32, 10, 85, 110, 107, 110, 111, 119, 110, 32, 67, 111, 109,
                 109, 97, 110, 100, 33, 32, 10, 62, 32>>   \* " \nUnknown Command! \n> "
ACK_PROMPT == <<10, 62, 32>>                               \* "\n> "

(***************************************************************************)
(* SerialReceiveCommand, statement by statement.                           *)
(***************************************************************************)
IsDigit(c) == c >= 48 /\ c <= 57

\* A mutant of fold_upper: no case folding.
fold_upper_off(c) == c

\* "if ( c >= 'a' && c <= 'z' ) c = toupper(c);"
fold_upper(c) == IF c >= 97 /\ c <= 122 THEN c - 32 ELSE c

\* A mutant of pad_blank: the end-of-frame byte is kept.
pad_blank_off(c) == c

\* "if( c == 0xFF ) c = ' ';" (applied to c2, c3 and c4, not to c1)
pad_blank(c) == IF c = EMPTY THEN SPACE ELSE c

\* A mutant of table_scan: the last index without a match leaves
\* bioloid_command as it was.
RECURSIVE table_scan_keep(_, _, _)
table_scan_keep(i, command, s) ==
    IF i >= NUMBER_OF_COMMANDS THEN s
    ELSE IF COMMANDSTR_POINTER[i + 1] = command
         THEN [s EXCEPT !.last_bioloid_command = s.bioloid_command,
                        !.bioloid_command = i]
         ELSE table_scan_keep(i + 1, command, s)

\* A mutant of table_scan: a match sets bioloid_command without first
\* saving it in last_bioloid_command.
RECURSIVE table_scan_noshift(_, _, _)
table_scan_noshift(i, command, s) ==
    IF i >= NUMBER_OF_COMMANDS THEN s
    ELSE IF COMMANDSTR_POINTER[i + 1] = command
         THEN [s EXCEPT !.bioloid_command = i]
         ELSE table_scan_noshift(i + 1, command,
                         IF i = NUMBER_OF_COMMANDS - 1
                         THEN [s EXCEPT !.bioloid_command = COMMAND_NOT_FOUND]
                         ELSE s)

\* The loop over the known commands from index i on: the first entry equal
\* to command sets last_bioloid_command and bioloid_command and ends the
\* loop; the last index without a match sets COMMAND_NOT_FOUND.
RECURSIVE table_scan(_, _, _)
table_scan(i, command, s) ==
    IF i >= NUMBER_OF_COMMANDS THEN s
    ELSE IF COMMANDSTR_POINTER[i + 1] = command
         THEN [s EXCEPT !.last_bioloid_command = s.bioloid_command,
                        !.bioloid_command = i]
         ELSE table_scan(i + 1, command,
                         IF i = NUMBER_OF_COMMANDS - 1
                         THEN [s EXCEPT !.bioloid_command = COMMAND_NOT_FOUND]
                         ELSE s)

\* A mutant of motion_page: the third digit is not accumulated.
motion_page_two_digits(c1, c2, c3, c4, s) ==
    IF s.bioloid_command = COMMAND_NOT_FOUND /\ c1 = 77 /\ IsDigit(c2)
    THEN LET p2 == (c2 - 48) % 256
             p3 == IF IsDigit(c3) THEN (((p2 * 10) % 256) + (c3 - 48)) % 256
                   ELSE p2
         IN  [s EXCEPT !.bioloid_command = COMMAND_MOTIONPAGE,
                       !.last_motion_page = s.current_motion_page,
                       !.current_motion_page = p3]
    ELSE s

\* The special case of the motion page command; current_motion_page is a
\* uint8, so every assignment to it keeps the low 8 bits.
motion_page(c1, c2, c3, c4, s) ==
    IF s.bioloid_command = COMMAND_NOT_FOUND /\ c1 = 77 /\ IsDigit(c2)
    THEN LET p2 == (c2 - 48) % 256
             p3 == IF IsDigit(c3) THEN (((p2 * 10) % 256) + (c3 - 48)) % 256
                   ELSE p2
             p4 == IF IsDigit(c4) THEN (((p3 * 10) % 256) + (c4 - 48)) % 256
                   ELSE p3
         IN  [s EXCEPT !.bioloid_command = COMMAND_MOTIONPAGE,
                       !.last_motion_page = s.current_motion_page,
                       !.current_motion_page = p4]
    ELSE s

\* The acknowledgment printed at the end of SerialReceiveCommand.
acknowledgment(c1, c2, c3, c4, s) ==
    IF s.bioloid_command = COMMAND_MOTIONPAGE
    THEN printf_chars(<<c1, c2, c3, c4>> \o ACK_MOTIONPAGE
                      \o printf_int(s.current_motion_page) \o ACK_PROMPT)
    ELSE IF s.bioloid_command # COMMAND_NOT_FOUND
    THEN printf_chars(<<c1, c2, c3, c4>> \o ACK_COMMAND
                      \o printf_int(s.bioloid_command) \o ACK_PROMPT)
    ELSE printf_chars(<<c1, c2, c3, c4>> \o ACK_UNKNOWN)

\* A mutant of SerialReceiveCommand: the flag is not tested, so a poll
\* without a complete frame classifies whatever the buffer holds.
SerialReceiveCommand_noguard(s) ==
    LET g1 == serial_get_queue(Queue(s))
        c1 == fold_upper(g1.data)
        g2 == serial_get_queue(g1.q)
        c2 == pad_blank(fold_upper(g2.data))
        g3 == serial_get_queue(g2.q)
        c3 == pad_blank(fold_upper(g3.data))
        g4 == serial_get_queue(g3.q)
        c4 == pad_blank(fold_upper(g4.data))
        g5 == serial_get_queue(g4.q)
        s1 == table_scan(0, <<c1, c2, c3, c4>>, WithQueue(s, g5.q))
        s2 == motion_page(c1, c2, c3, c4, s1)
        s3 == [s2 EXCEPT !.flag_receive_ready = 0]
    IN  [s |-> s3, tx |-> acknowledgment(c1, c2, c3, c4, s3),
         token |-> <<c1, c2, c3, c4>>]

\* void SerialReceiveCommand(): nothing when flag_receive_ready is 0; else
\* four bytes are taken from the queue, folded to upper case and (all but
\* the first) padded, a fifth is taken and dropped, the table is scanned,
\* the motion page case is tried, the flag is reset and the acknowledgment
\* is printed.  The result is [s, tx, token]: the state afterwards, the
\* bytes printed and the 4-character working token (<<>> for no cycle).
SerialReceiveCommand(s) ==
    IF s.flag_receive_ready = 0
    THEN [s |-> s, tx |-> <<>>, token |-> <<>>]
    ELSE LET g1 == serial_get_queue(Queue(s))
             c1 == fold_upper(g1.data)
             g2 == serial_get_queue(g1.q)
             c2 == pad_blank(fold_upper(g2.data))
             g3 == serial_get_queue(g2.q)
             c3 == pad_blank(fold_upper(g3.data))
             g4 == serial_get_queue(g3.q)
             c4 == pad_blank(fold_upper(g4.data))
             g5 == serial_get_queue(g4.q)
             s1 == table_scan(0, <<c1, c2, c3, c4>>, WithQueue(s, g5.q))
             s2 == motion_page(c1, c2, c3, c4, s1)
             s3 == [s2 EXCEPT !.flag_receive_ready = 0]
         IN  [s |-> s3, tx |-> acknowledgment(c1, c2, c3, c4, s3),
              token |-> <<c1, c2, c3, c4>>]

\* unsigned char serial_read(pData, numbyte): nothing on an empty buffer,
\* else min(numbyte, serial_get_qstate()) bytes are taken from the queue.
\* The result is [q |-> the queue afterwards, data |-> the bytes read].
RECURSIVE read_loop(_, _, _)
read_loop(q, count, data) ==
    IF count = 0 THEN [q |-> q, data |-> data]
    ELSE LET g == serial_get_queue(q)
         IN  read_loop(g.q, count - 1, Append(data, g.data))

serial_read(q, numbyte) ==
    IF q.head = q.tail THEN [q |-> q, data |-> <<>>]
    ELSE LET n == serial_get_qstate(q.head, q.tail)
         IN  read_loop(q, IF n > numbyte THEN numbyte ELSE n, <<>>)

\* int std_getchar(FILE*), once the wait for a byte has ended: the byte at
\* the head is taken and a CR is returned as a newline.
std_getchar(q) ==
    LET g == serial_get_queue(q)
    IN  [q |-> g.q, data |-> IF g.data = CR THEN LF ELSE g.data]

(***************************************************************************)
(* The statements of the poll context one by one, for the runs in which    *)
(* the receive interrupt comes between two of them.  The interrupt writes  *)
(* the tail, the storage and the flag and never the head, so a statement   *)
(* that reads head and tail acts as one step.                              *)
(***************************************************************************)
\* serial_get_queue, line 318: "if( gbSerialBufferHead == gbSerialBufferTail )"
get_queue_empty(q) == q.head = q.tail

\* serial_get_queue, line 322: "data = gbSerialBuffer[gbSerialBufferHead];"
get_queue_data(q) == q.buf[q.head]

\* A mutant of get_queue_head: the head moves on without the test for the
\* end of the storage.
get_queue_head_nowrap(q) == [q EXCEPT !.head = q.head + 1]

\* serial_get_queue, lines 325-329: the head moves on, back to 0 at the end
\* of the storage.
get_queue_head(q) ==
    [q EXCEPT !.head = IF q.head = MAXNUM_SERIALBUFF - 1 THEN 0
                       ELSE q.head + 1]

\* serial_get_qstate, line 280, line 284, and the counts of lines 286 and
\* 289, each computed from the head and tail read by that statement.
qstate_is_empty(head, tail) == head = tail

qstate_is_left(head, tail) == head < tail

qstate_left(head, tail) == tail - head

qstate_right(head, tail) == MAXNUM_SERIALBUFF - (head - tail)

\* SerialReceiveCommand, lines 161-175: what is stored as c1, c2, c3, c4 for
\* the byte d returned by the k-th serial_get_queue.
token_char(k, d) ==
    IF k = 1 THEN fold_upper(d) ELSE pad_blank(fold_upper(d))

\* A mutant of flag_reset: the flag is left as it is.
flag_reset_off(s) == s

\* SerialReceiveCommand, line 227: "flag_receive_ready = 0;"
flag_reset(s) == [s EXCEPT !.flag_receive_ready = 0]

(***************************************************************************)
(* The state.                                                              *)
(***************************************************************************)
VARIABLES
    gbSerialBuffer,        \* the storage of the ring buffer, indexed from 0
    gbSerialBufferHead,    \* index of the next byte to take
    gbSerialBufferTail,    \* index of the next slot to fill
    flag_receive_ready,    \* set by the receive handler on a terminator
    bioloid_command,       \* current command
    last_bioloid_command,  \* last command
    current_motion_page,   \* current motion page
    last_motion_page,      \* last motion page
    tx,                    \* the bytes the last step wrote to the serial port
    call,                  \* the last step: function, argument, result
    pending,               \* history: the bytes accepted and not yet taken
    nPut,                  \* history: number of accepted serial_put_queue calls
    nGet,                  \* history: number of serial_get_queue calls that took a byte
    rxCount,               \* number of bytes received so far
    rxlog,                 \* history: the bytes received of the current frame
    echolog,               \* history: what the receive handler wrote for them
    wire,                  \* the bytes of the frame still to arrive
    frame,                 \* the payload of the frame being sent
    start,                 \* the program state when the frame began
    pc,                    \* position of the frame session: rx, poll, done
    poll                   \* the poll context: the function it runs, the
                           \* statement it is at and the function's locals

progvars == <<gbSerialBuffer, gbSerialBufferHead, gbSerialBufferTail,
              flag_receive_ready, bioloid_command, last_bioloid_command,
              current_motion_page, last_motion_page>>

vars == <<gbSerialBuffer, gbSerialBufferHead, gbSerialBufferTail,
          flag_receive_ready, bioloid_command, last_bioloid_command,
          current_motion_page, last_motion_page,
          tx, call, pending, nPut, nGet, rxCount, rxlog, echolog,
          wire, frame, start, pc, poll>>

\* The program state as a record, the step to a given record and the
\* initial condition of starting as a given record.
State ==
    [buf  |-> gbSerialBuffer, head |-> gbSerialBufferHead,
     tail |-> gbSerialBufferTail,
     flag_receive_ready   |-> flag_receive_ready,
     bioloid_command      |-> bioloid_command,
     last_bioloid_command |-> last_bioloid_command,
     current_motion_page  |-> current_motion_page,
     last_motion_page     |-> last_motion_page]

Becomes(s) ==
    /\ gbSerialBuffer' = s.buf
    /\ gbSerialBufferHead' = s.head
    /\ gbSerialBufferTail' = s.tail
    /\ flag_receive_ready' = s.flag_receive_ready
    /\ bioloid_command' = s.bioloid_command
    /\ last_bioloid_command' = s.last_bioloid_command
    /\ current_motion_page' = s.current_motion_page
    /\ last_motion_page' = s.last_motion_page

StartsAs(s) ==
    /\ gbSerialBuffer = s.buf
    /\ gbSerialBufferHead = s.head
    /\ gbSerialBufferTail = s.tail
    /\ flag_receive_ready = s.flag_receive_ready
    /\ bioloid_command = s.bioloid_command
    /\ last_bioloid_command = s.last_bioloid_command
    /\ current_motion_page = s.current_motion_page
    /\ last_motion_page = s.last_motion_page

\* The history of the queue after a step from queue q0 to queue q1 in which
\* the byte d was offered (put) or nothing was (d = -1): a put is accepted
\* when it moved the tail, a get took a byte when it moved the head.
History(q0, q1, d) ==
    LET put == q1.tail # q0.tail
        got == IF q1.head >= q0.head THEN q1.head - q0.head
               ELSE MAXNUM_SERIALBUFF - (q0.head - q1.head)
        more == IF put THEN Append(pending, d) ELSE pending
    IN  /\ pending' = IF got >= Len(more) THEN <<>>
                      ELSE SubSeq(more, got + 1, Len(more))
        /\ nPut' = IF put THEN nPut + 1 ELSE nPut
        /\ nGet' = nGet + got

\* The history of the receive handler after it was run for the byte c and
\* wrote out: the logs start again with the byte after a terminator.
Logged(c, out) ==
    IF rxlog # <<>> /\ rxlog[Len(rxlog)] = CR
    THEN rxlog' = <<c>> /\ echolog' = out
    ELSE rxlog' = Append(rxlog, c) /\ echolog' = echolog \o out

NoCall == [fn |-> "serial_init", arg |-> 0, ret |-> 0, n0 |-> 0,
           same |-> TRUE, exp |-> 0, token |-> <<>>]

\* The poll context between two calls: fn is the function it runs, at the
\* statement it is at, k the number of the serial_get_queue call of a
\* dispatch cycle, c the characters c1.. taken so far; data, NumByte,
\* numbyte, numgetbyte and count are the locals of serial_get_queue,
\* serial_get_qstate and serial_read.  pops, resets and cycles are history:
\* the bytes the running cycle has taken, the times it has reset the flag
\* and the dispatch cycles begun.
NoPoll == [fn |-> "none", at |-> "idle", k |-> 0, c |-> <<>>, data |-> 0,
           NumByte |-> 0, numbyte |-> 0, numgetbyte |-> 0, count |-> 0,
           pops |-> 0, resets |-> 0, cycles |-> 0]

(***************************************************************************)
(* SpecQueue: the ring buffer driven call by call, serial_put_queue with   *)
(* any byte of QueueBytes and serial_get_queue, in any order.  In the      *)
(* actions, \E over a one-element set names the result of a call.          *)
(***************************************************************************)
\* The bytes offered to serial_put_queue: 'A' and 0xFF (the value a get on
\* an empty buffer returns).
QueueBytes == {65, EMPTY}

\* Accepted puts are counted up to MaxOps, enough to wrap the tail past the
\* end of the storage three times.
MaxOps == 3 * MAXNUM_SERIALBUFF

Idle ==
    /\ rxCount = 0 /\ rxlog = <<>> /\ echolog = <<>>
    /\ wire = <<>> /\ frame = <<>>
    /\ start = serial_init /\ pc = "none"
    /\ poll = NoPoll

InitQueue ==
    /\ StartsAs(serial_init)
    /\ tx = <<>> /\ call = NoCall
    /\ pending = <<>> /\ nPut = 0 /\ nGet = 0
    /\ Idle

PutCall(d) ==
    /\ nPut < MaxOps
    /\ \E q0 \in {Queue(State)} : \E q1 \in {serial_put_queue(q0, d)} :
           /\ Becomes(WithQueue(State, q1))
           /\ History(q0, q1, d)
           /\ call' = [fn |-> "serial_put_queue", arg |-> d, ret |-> 0,
                       n0 |-> Len(pending), same |-> (q1 = q0), exp |-> 0,
                       token |-> <<>>]
    /\ tx' = <<>>
    /\ UNCHANGED <<rxCount, rxlog, echolog, wire, frame, start, pc, poll>>

GetCall ==
    /\ \E q0 \in {Queue(State)} : \E g \in {serial_get_queue(q0)} :
           /\ Becomes(WithQueue(State, g.q))
           /\ History(q0, g.q, -1)
           /\ call' = [fn |-> "serial_get_queue", arg |-> 0, ret |-> g.data,
                       n0 |-> Len(pending), same |-> (g.q = q0),
                       exp |-> IF pending = <<>> THEN EMPTY ELSE Head(pending),
                       token |-> <<>>]
    /\ tx' = <<>>
    /\ UNCHANGED <<rxCount, rxlog, echolog, wire, frame, start, pc, poll>>

NextQueue ==
    \/ \E d \in QueueBytes : PutCall(d)
    \/ GetCall

SpecQueue == InitQueue /\ [][NextQueue]_vars

\* The bytes the storage holds from the head up to the tail, n of them.
Contents(n) ==
    [i \in 1..n |->
        gbSerialBuffer[(gbSerialBufferHead + i - 1) % MAXNUM_SERIALBUFF]]

\* C1: the count serial_get_qstate returns is always within 0..N-1; a
\* serial_put_queue made while fewer than N-1 bytes are held is accepted and
\* raises the count by one (so N-1 puts into an empty buffer are all
\* accepted and the count is then N-1); a serial_put_queue made while N-1
\* bytes are held leaves head, tail and the stored bytes unchanged.
C1_Capacity ==
    /\ serial_get_qstate(gbSerialBufferHead, gbSerialBufferTail)
           \in 0..(MAXNUM_SERIALBUFF - 1)
    /\ call.fn = "serial_put_queue" =>
         IF call.n0 < MAXNUM_SERIALBUFF - 1
         THEN /\ ~call.same
              /\ serial_get_qstate(gbSerialBufferHead, gbSerialBufferTail)
                     = call.n0 + 1
         ELSE /\ call.same
              /\ serial_get_qstate(gbSerialBufferHead, gbSerialBufferTail)
                     = MAXNUM_SERIALBUFF - 1

\* N-1 puts were made into the empty buffer and one more was rejected.
C1_Witness ==
    /\ call.fn = "serial_put_queue" /\ call.same
    /\ call.n0 = MAXNUM_SERIALBUFF - 1
    /\ nPut = MAXNUM_SERIALBUFF - 1 /\ nGet = 0

\* C2: the buffer holds exactly the accepted bytes not yet returned, oldest
\* at the head; a serial_get_queue on a non-empty buffer returns the oldest
\* of them, and on an empty buffer returns 0xFF and changes nothing.
C2_Fifo ==
    /\ pending = Contents(Len(pending))
    /\ (gbSerialBufferHead = gbSerialBufferTail) <=> (pending = <<>>)
    /\ call.fn = "serial_get_queue" =>
         /\ call.ret = call.exp
         /\ call.n0 = 0 => (call.ret = EMPTY /\ call.same)
         /\ call.n0 > 0 => ~call.same

\* After the head has wrapped, the bytes 0xFF, 'A', 0xFF were taken in the
\* order they were put, the last get (which returned the data byte 0xFF)
\* leaving the buffer empty.
C2_Witness ==
    /\ call.fn = "serial_get_queue" /\ call.n0 = 1 /\ call.ret = EMPTY
    /\ nGet > MAXNUM_SERIALBUFF /\ nPut = nGet
    /\ gbSerialBuffer[(gbSerialBufferHead + MAXNUM_SERIALBUFF - 2)
                          % MAXNUM_SERIALBUFF] = 65
    /\ gbSerialBuffer[(gbSerialBufferHead + MAXNUM_SERIALBUFF - 3)
                          % MAXNUM_SERIALBUFF] = EMPTY

\* C3: serial_get_qstate equals the number of accepted puts minus the
\* number of bytes taken, whatever the positions of head and tail.
C3_Count ==
    serial_get_qstate(gbSerialBufferHead, gbSerialBufferTail) = nPut - nGet

\* The tail has wrapped past the end of the storage twice and is behind
\* the head.
C3_Witness ==
    /\ nPut > 2 * MAXNUM_SERIALBUFF
    /\ gbSerialBufferTail < gbSerialBufferHead
    /\ nPut - nGet = MAXNUM_SERIALBUFF - 1

(***************************************************************************)
(* Spec: the program.  The receive interrupt runs once per arriving byte,  *)
(* at any time; the poll context calls SerialReceiveCommand, std_getchar   *)
(* and serial_read in any order.                                           *)
(***************************************************************************)
\* The bytes that arrive: the terminator and a letter.
RxBytes == {CR, 87}

\* The number of bytes that arrive in a run: enough to fill the buffer and
\* have one byte dropped.
MaxRx == MAXNUM_SERIALBUFF

\* The values of numbyte serial_read is called with.
ReadSizes == {1, 2}

Init ==
    /\ StartsAs(serial_init)
    /\ tx = <<>> /\ call = NoCall
    /\ pending = <<>> /\ nPut = 0 /\ nGet = 0
    /\ Idle

RxInterrupt(c) ==
    /\ rxCount < MaxRx
    /\ \E r \in {USART1_RX_vect(State, c)} :
           /\ Becomes(r.s)
           /\ tx' = r.tx
           /\ History(Queue(State), Queue(r.s), IF c = CR THEN EMPTY ELSE c)
           /\ call' = [fn |-> "USART1_RX_vect", arg |-> c, ret |-> 0,
                       n0 |-> Len(pending), same |-> (r.s = State),
                       exp |-> 0, token |-> <<>>]
           /\ Logged(c, r.tx)
    /\ rxCount' = rxCount + 1
    /\ UNCHANGED <<wire, frame, start, pc, poll>>

Poll ==
    /\ \E r \in {SerialReceiveCommand(State)} :
           /\ Becomes(r.s)
           /\ tx' = r.tx
           /\ History(Queue(State), Queue(r.s), -1)
           /\ call' = [fn |-> "SerialReceiveCommand",
                       arg |-> flag_receive_ready, ret |-> 0,
                       n0 |-> Len(pending), same |-> (r.s = State),
                       exp |-> 0, token |-> r.token]
    /\ UNCHANGED <<rxCount, rxlog, echolog, wire, frame, start, pc, poll>>

\* std_getchar waits while serial_get_qstate() is 0.
GetChar ==
    /\ serial_get_qstate(gbSerialBufferHead, gbSerialBufferTail) # 0
    /\ \E g \in {std_getchar(Queue(State))} :
           /\ Becomes(WithQueue(State, g.q))
           /\ History(Queue(State), g.q, -1)
           /\ call' = [fn |-> "std_getchar", arg |-> 0, ret |-> g.data,
                       n0 |-> Len(pending), same |-> (g.q = Queue(State)),
                       exp |-> IF pending = <<>> THEN EMPTY ELSE Head(pending),
                       token |-> <<>>]
    /\ tx' = <<>>
    /\ UNCHANGED <<rxCount, rxlog, echolog, wire, frame, start, pc, poll>>

Read(numbyte) ==
    /\ \E g \in {serial_read(Queue(State), numbyte)} :
           /\ Becomes(WithQueue(State, g.q))
           /\ History(Queue(State), g.q, -1)
           /\ call' = [fn |-> "serial_read", arg |-> numbyte,
                       ret |-> Len(g.data),
                       n0 |-> Len(pending), same |-> (g.q = Queue(State)),
                       exp |-> 0, token |-> g.data]
    /\ tx' = <<>>
    /\ UNCHANGED <<rxCount, rxlog, echolog, wire, frame, start, pc, poll>>

Next ==
    \/ \E c \in RxBytes : RxInterrupt(c)
    \/ Poll
    \/ GetChar
    \/ \E numbyte \in ReadSizes : Read(numbyte)

Spec == Init /\ [][Next]_vars

(***************************************************************************)
(* SpecEcho: the receive handler and the dispatcher, for an input that has *)
(* newlines too.                                                           *)
(***************************************************************************)
\* The bytes that arrive: the terminator, a newline and a letter.
EchoBytes == {CR, LF, 87}

NextEcho ==
    \/ \E c \in EchoBytes : RxInterrupt(c)
    \/ Poll

SpecEcho == Init /\ [][NextEcho]_vars

(***************************************************************************)
(* SpecFrame: one frame session.  A frame (its payload bytes, then the     *)
(* terminator) arrives byte by byte through the receive interrupt while    *)
(* the buffer is empty, and SerialReceiveCommand is then polled once.      *)
(***************************************************************************)
\* The payload bytes: W w F f L S M and the digits 2 5.
FrameBytes == {87, 119, 70, 102, 76, 83, 77, 50, 53}

\* The longest payload.
MaxFrameLen == 4

Frames == UNION {[1..n -> FrameBytes] : n \in 0..MaxFrameLen}

\* The state after the bytes have arrived, one interrupt per byte.
RECURSIVE Deliver(_, _)
Deliver(s, bytes) ==
    IF bytes = <<>> THEN s
    ELSE Deliver(USART1_RX_vect(s, Head(bytes)).s, Tail(bytes))

\* The state after a whole frame has arrived and has been dispatched.
Dispatched(s, payload) ==
    SerialReceiveCommand(Deliver(s, payload \o <<CR>>)).s

\* The states a session starts in: the one serial_init leaves, and the one
\* reached from it by the frames "M5", "M2" and "WF", each dispatched, which
\* leaves the buffer empty and the four command values different.
FrameStarts ==
    {serial_init,
     Dispatched(Dispatched(Dispatched(serial_init, <<77, 53>>), <<77, 50>>),
                <<87, 70>>)}

InitFrame ==
    /\ \E s \in FrameStarts : StartsAs(s) /\ start = s
    /\ frame \in Frames
    /\ wire = frame \o <<CR>>
    /\ pc = "rx"
    /\ tx = <<>> /\ call = NoCall
    /\ pending = <<>> /\ nPut = 0 /\ nGet = 0
    /\ rxCount = 0 /\ rxlog = <<>> /\ echolog = <<>>
    /\ poll = NoPoll

FrameRx ==
    /\ pc = "rx"
    /\ \E r \in {USART1_RX_vect(State, Head(wire))} :
           /\ Becomes(r.s)
           /\ tx' = r.tx
           /\ History(Queue(State), Queue(r.s),
                      IF Head(wire) = CR THEN EMPTY ELSE Head(wire))
           /\ call' = [fn |-> "USART1_RX_vect", arg |-> Head(wire),
                       ret |-> 0, n0 |-> Len(pending),
                       same |-> (r.s = State), exp |-> 0, token |-> <<>>]
           /\ Logged(Head(wire), r.tx)
    /\ wire' = Tail(wire)
    /\ pc' = IF Tail(wire) = <<>> THEN "poll" ELSE "rx"
    /\ rxCount' = rxCount + 1
    /\ UNCHANGED <<frame, start, poll>>

FramePoll ==
    /\ pc = "poll"
    /\ \E r \in {SerialReceiveCommand(State)} :
           /\ Becomes(r.s)
           /\ tx' = r.tx
           /\ History(Queue(State), Queue(r.s), -1)
           /\ call' = [fn |-> "SerialReceiveCommand",
                       arg |-> flag_receive_ready, ret |-> 0,
                       n0 |-> Len(pending), same |-> (r.s = State),
                       exp |-> 0, token |-> r.token]
    /\ pc' = "done"
    /\ UNCHANGED <<rxCount, rxlog, echolog, wire, frame, start, poll>>

NextFrame == FrameRx \/ FramePoll

SpecFrame == InitFrame /\ [][NextFrame]_vars

(***************************************************************************)
(* SpecPair: two frame sessions in a row.  A frame with more than four     *)
(* payload bytes arrives and is dispatched, then a following frame arrives *)
(* into whatever the buffer still holds and is dispatched too.             *)
(***************************************************************************)
\* The payload bytes of the first frame: W and F.
LongBytes == {87, 70}

\* The longest first frame; with its end-of-frame byte it fills the buffer.
MaxLongLen == 5

LongFrames == UNION {[1..n -> LongBytes] : n \in 5..MaxLongLen}

\* The frames that follow: "WF", "M5", "SIT" and "WFLS".
FollowFrames == {<<87, 70>>, <<77, 53>>, <<83, 73, 84>>, <<87, 70, 76, 83>>}

InitPair ==
    /\ \E s \in FrameStarts : StartsAs(s) /\ start = s
    /\ frame \in LongFrames
    /\ wire = frame \o <<CR>>
    /\ pc = "rx"
    /\ tx = <<>> /\ call = NoCall
    /\ pending = <<>> /\ nPut = 0 /\ nGet = 0
    /\ rxCount = 0 /\ rxlog = <<>> /\ echolog = <<>>
    /\ poll = NoPoll

\* The first frame has been dispatched and the sender begins the next one.
FrameFollows ==
    /\ pc = "done"
    /\ rxCount = Len(frame) + 1
    /\ \E f \in FollowFrames : frame' = f /\ wire' = f \o <<CR>>
    /\ start' = State
    /\ pc' = "rx"
    /\ UNCHANGED <<progvars, tx, call, pending, nPut, nGet, rxCount, rxlog,
                   echolog, poll>>

NextPair == FrameRx \/ FramePoll \/ FrameFollows

SpecPair == InitPair /\ [][NextPair]_vars

(***************************************************************************)
(* SpecIsr: SerialReceiveCommand statement by statement, with the receive  *)
(* interrupt able to run between any two statements.  SpecIsrFair is the   *)
(* same for a shorter input, with the main loop polling for ever.          *)
(* SpecLockFree has std_getchar and serial_read in the poll context,       *)
(* statement by statement like their calls of serial_get_qstate and        *)
(* serial_get_queue.                                                       *)
(***************************************************************************)
\* The bytes that arrive in these runs: the terminator and a letter.
IsrBytes == {CR, 87}

\* The last step was a statement inside a function of the poll context.
StmtCall == [NoCall EXCEPT !.fn = "statement"]

\* The last step was a return of serial_get_queue with the byte d.
GetQueueCall(d) ==
    [fn |-> "serial_get_queue", arg |-> 0, ret |-> d, n0 |-> Len(pending),
     same |-> (d = EMPTY /\ pending = <<>>),
     exp |-> IF pending = <<>> THEN EMPTY ELSE Head(pending),
     token |-> <<>>]

\* A statement of the poll context: the program state becomes s, out is
\* written to the serial port, the poll context becomes p.
PollStmt(s, out, p, done) ==
    /\ Becomes(s)
    /\ tx' = out
    /\ poll' = p
    /\ call' = done
    /\ History(Queue(State), Queue(s), -1)
    /\ UNCHANGED <<rxCount, rxlog, echolog, wire, frame, start, pc>>

\* The poll context after the function it runs has returned.
Returned == [NoPoll EXCEPT !.cycles = poll.cycles]

\* The poll context after serial_get_queue has returned the byte d to the
\* function that called it.
AfterGet(d) ==
    IF poll.fn = "SerialReceiveCommand"
    THEN [poll EXCEPT !.c = IF poll.k <= 4
                            THEN Append(poll.c, token_char(poll.k, d))
                            ELSE poll.c,
                      !.k = poll.k + 1,
                      !.pops = IF pending = <<>> THEN poll.pops
                               ELSE poll.pops + 1,
                      !.at = IF poll.k < 5 THEN "get318" ELSE "scan182"]
    ELSE IF poll.fn = "serial_read" /\ poll.count + 1 < poll.numgetbyte
    THEN [poll EXCEPT !.count = poll.count + 1, !.at = "get318"]
    ELSE Returned

\* Line 154: nothing to do while the flag is 0, else a dispatch cycle
\* begins with the first serial_get_queue.
SrcEnter ==
    /\ poll.at = "idle"
    /\ IF flag_receive_ready = 0
       THEN PollStmt(State, <<>>, poll,
                     [NoCall EXCEPT !.fn = "SerialReceiveCommand"])
       ELSE PollStmt(State, <<>>,
                     [poll EXCEPT !.fn = "SerialReceiveCommand",
                                  !.at = "get318", !.k = 1,
                                  !.cycles = poll.cycles + 1],
                     StmtCall)

\* serial_get_queue, line 318.
GetEmpty ==
    /\ poll.at = "get318"
    /\ IF get_queue_empty(Queue(State))
       THEN PollStmt(State, <<>>, AfterGet(EMPTY), GetQueueCall(EMPTY))
       ELSE PollStmt(State, <<>>, [poll EXCEPT !.at = "get322"], StmtCall)

\* serial_get_queue, line 322.
GetData ==
    /\ poll.at = "get322"
    /\ PollStmt(State, <<>>,
                [poll EXCEPT !.data = get_queue_data(Queue(State)),
                             !.at = "get325"],
                StmtCall)

\* serial_get_queue, lines 325-331: the head moves and data is returned.
GetHead ==
    /\ poll.at = "get325"
    /\ PollStmt(WithQueue(State, get_queue_head(Queue(State))), <<>>,
                AfterGet(poll.data), GetQueueCall(poll.data))

\* Lines 182-200.
SrcScan ==
    /\ poll.at = "scan182"
    /\ PollStmt(table_scan(0, poll.c, State), <<>>,
                [poll EXCEPT !.at = "page203"], StmtCall)

\* Lines 203-224.
SrcPage ==
    /\ poll.at = "page203"
    /\ PollStmt(motion_page(poll.c[1], poll.c[2], poll.c[3], poll.c[4], State),
                <<>>, [poll EXCEPT !.at = "reset227"], StmtCall)

\* Line 227.
SrcReset ==
    /\ poll.at = "reset227"
    /\ PollStmt(flag_reset(State), <<>>,
                [poll EXCEPT !.at = "ack230",
                             !.resets =
                                 IF flag_reset(State).flag_receive_ready = 0
                                 THEN poll.resets + 1 ELSE poll.resets],
                StmtCall)

\* Lines 230-236, and the return.
SrcAck ==
    /\ poll.at = "ack230"
    /\ PollStmt(State,
                acknowledgment(poll.c[1], poll.c[2], poll.c[3], poll.c[4],
                               State),
                Returned,
                [NoCall EXCEPT !.fn = "SerialReceiveCommand", !.arg = 1,
                               !.token = poll.c])

\* The statements of serial_get_queue.
GetStep ==
    \/ GetEmpty
    \/ GetData
    \/ GetHead

\* The statements of SerialReceiveCommand and of its calls.
SrcStep ==
    \/ SrcEnter
    \/ GetStep
    \/ SrcScan
    \/ SrcPage
    \/ SrcReset
    \/ SrcAck

NextIsr ==
    \/ \E c \in IsrBytes : RxInterrupt(c)
    \/ SrcStep

SpecIsr == Init /\ [][NextIsr]_vars

\* The number of serial_get_queue calls of a dispatch cycle: c1, c2, c3, c4
\* and the flush.
CyclePops == 5

\* The number of bytes that arrive in a run of SpecIsrFair: one more than
\* a dispatch cycle takes.
MaxIsrRx == CyclePops + 1

NextIsrFair ==
    \/ \E c \in IsrBytes : rxCount < MaxIsrRx /\ RxInterrupt(c)
    \/ SrcStep

\* The main loop calls SerialReceiveCommand again and again, and a call,
\* once begun, runs to its end.
SpecIsrFair == Init /\ [][NextIsrFair]_vars /\ WF_vars(SrcStep)

\* The poll context after serial_get_qstate has returned n to the function
\* that called it: std_getchar calls it again while it returns 0 (line
\* 361); serial_read reads n bytes, or numbyte if that is fewer (lines
\* 264-268).
AfterQstate(n) ==
    IF poll.fn = "std_getchar"
    THEN [poll EXCEPT !.NumByte = n,
                      !.at = IF n = 0 THEN "qs280" ELSE "get318"]
    ELSE LET numgetbyte == IF n > poll.numbyte THEN poll.numbyte ELSE n
         IN  IF 0 < numgetbyte
             THEN [poll EXCEPT !.NumByte = n, !.numgetbyte = numgetbyte,
                               !.count = 0, !.at = "get318"]
             ELSE Returned

\* std_getchar is called: line 361, the first call of serial_get_qstate.
GcEnter ==
    /\ poll.at = "idle"
    /\ PollStmt(State, <<>>,
                [poll EXCEPT !.fn = "std_getchar", !.at = "qs280"], StmtCall)

\* serial_read is called: lines 260-264.
SrEnter(numbyte) ==
    /\ poll.at = "idle"
    /\ IF gbSerialBufferHead = gbSerialBufferTail
       THEN PollStmt(State, <<>>, poll,
                     [NoCall EXCEPT !.fn = "serial_read", !.arg = numbyte])
       ELSE PollStmt(State, <<>>,
                     [poll EXCEPT !.fn = "serial_read", !.numbyte = numbyte,
                                  !.at = "qs280"],
                     StmtCall)

\* serial_get_qstate, lines 280-282.
QsEmpty ==
    /\ poll.at = "qs280"
    /\ IF qstate_is_empty(gbSerialBufferHead, gbSerialBufferTail)
       THEN PollStmt(State, <<>>, AfterQstate(0), StmtCall)
       ELSE PollStmt(State, <<>>, [poll EXCEPT !.at = "qs284"], StmtCall)

\* serial_get_qstate, line 284.
QsLeft ==
    /\ poll.at = "qs284"
    /\ PollStmt(State, <<>>,
                [poll EXCEPT !.at =
                    IF qstate_is_left(gbSerialBufferHead, gbSerialBufferTail)
                    THEN "qs286" ELSE "qs289"],
                StmtCall)

\* serial_get_qstate, line 286 and the return.
QsCountLeft ==
    /\ poll.at = "qs286"
    /\ PollStmt(State, <<>>,
                AfterQstate(qstate_left(gbSerialBufferHead,
                                        gbSerialBufferTail)),
                StmtCall)

\* serial_get_qstate, line 289 and the return.
QsCountRight ==
    /\ poll.at = "qs289"
    /\ PollStmt(State, <<>>,
                AfterQstate(qstate_right(gbSerialBufferHead,
                                         gbSerialBufferTail)),
                StmtCall)

\* The statements of std_getchar and serial_read and of their calls.
ReadStep ==
    \/ GcEnter
    \/ \E numbyte \in ReadSizes : SrEnter(numbyte)
    \/ QsEmpty
    \/ QsLeft
    \/ QsCountLeft
    \/ QsCountRight

NextLockFree ==
    \/ \E c \in IsrBytes : RxInterrupt(c)
    \/ ReadStep
    \/ GetStep

SpecLockFree == Init /\ [][NextLockFree]_vars

(***************************************************************************)
(* Claims about the classification of one frame (SpecFrame).               *)
(***************************************************************************)
\* The payload with every lowercase letter a-z replaced by its uppercase.
UpperFrame(payload) ==
    [i \in 1..Len(payload) |->
        IF payload[i] \in 97..122 THEN payload[i] - 32 ELSE payload[i]]

\* The command ordinal and the motion pages of a state.
Classification(s) ==
    <<s.bioloid_command, s.last_bioloid_command,
      s.current_motion_page, s.last_motion_page>>

\* C4: once the frame has been dispatched, the command ordinal and the
\* motion-page values are those the dispatch of the uppercased frame gives
\* from the same starting state.
C4_CaseInsensitive ==
    pc = "done" =>
        Classification(State)
            = Classification(Dispatched(start, UpperFrame(frame)))

\* "wf" has been dispatched and classified as ordinal 1, as "WF" is.
C4_Witness ==
    /\ pc = "done" /\ frame = <<119, 102>>
    /\ bioloid_command = 1
    /\ Dispatched(start, <<87, 70>>).bioloid_command = 1

\* The table entries with exactly k characters before the padding.
ShortToken(i, k) ==
    /\ \A j \in 1..k : COMMANDSTR_POINTER[i + 1][j] # SPACE
    /\ \A j \in (k + 1)..4 : COMMANDSTR_POINTER[i + 1][j] = SPACE

\* C5: when the payload is the 2 or 3 characters of a table token, the
\* dispatch sets the command ordinal to the token's table position and
\* leaves the buffer empty.
C5_Padding ==
    pc = "done" =>
        \A i \in 0..(NUMBER_OF_COMMANDS - 1) : \A k \in {2, 3} :
            (ShortToken(i, k) /\ frame = SubSeq(COMMANDSTR_POINTER[i + 1], 1, k))
                => /\ bioloid_command = i
                   /\ gbSerialBufferHead = gbSerialBufferTail

\* "WLS" has been dispatched: ordinal 5, whatever the command was before.
C5_Witness ==
    /\ pc = "done" /\ frame = <<87, 76, 83>>
    /\ bioloid_command = 5 /\ start.bioloid_command # 5
    /\ gbSerialBufferHead = gbSerialBufferTail

\* The base-10 value of a string of digit characters.
RECURSIVE DecimalValue(_)
DecimalValue(digits) ==
    IF digits = <<>> THEN 0
    ELSE 10 * DecimalValue(SubSeq(digits, 1, Len(digits) - 1))
         + (digits[Len(digits)] - 48)

\* C6: when the payload is 'M' followed by one, two or three decimal digits,
\* the dispatch sets the command ordinal to the motion page ordinal and
\* current_motion_page to the base-10 value of the digits.
C6_MotionPage ==
    (/\ pc = "done"
     /\ Len(frame) \in 2..4
     /\ frame[1] = 77
     /\ \A i \in 2..Len(frame) : frame[i] \in 48..57)
        => /\ bioloid_command = COMMAND_MOTIONPAGE
           /\ current_motion_page = DecimalValue(Tail(frame))

\* Whether the payload is 'M' followed by one, two or three decimal digits.
IsPageFrame(payload) ==
    /\ Len(payload) \in 2..4
    /\ payload[1] = 77
    /\ \A i \in 2..Len(payload) : payload[i] \in 48..57

\* C6, amended: when the payload is 'M' followed by one, two or three
\* decimal digits, the dispatch sets the command ordinal to the motion page
\* ordinal and current_motion_page to the base-10 value of the digits
\* modulo 256, which is the value itself from 0 to 255.
C6_MotionPageMod256 ==
    (pc = "done" /\ IsPageFrame(frame))
        => /\ bioloid_command = COMMAND_MOTIONPAGE
           /\ current_motion_page = DecimalValue(Tail(frame)) % 256
           /\ (DecimalValue(Tail(frame)) <= 255
                  => current_motion_page = DecimalValue(Tail(frame)))

\* "M255" has been dispatched and the motion page is 255.
C6_Witness ==
    /\ pc = "done" /\ frame = <<77, 50, 53, 53>>
    /\ bioloid_command = COMMAND_MOTIONPAGE
    /\ current_motion_page = 255

\* Whether sub occurs in seq as a contiguous run.
Contains(seq, sub) ==
    \E i \in 0..(Len(seq) - Len(sub)) : SubSeq(seq, i + 1, i + Len(sub)) = sub

UNKNOWN_COMMAND == <<85, 110, 107, 110, 111, 119, 110, 32, 67, 111, 109,
                     109, 97, 110, 100, 33>>  \* "Unknown Command!"

TableTokens == {COMMANDSTR_POINTER[i + 1] : i \in 0..(NUMBER_OF_COMMANDS - 1)}

\* C7: when the working token is no table entry and is not 'M' followed by
\* a digit, the dispatch sets the command ordinal to the not-found value,
\* leaves the last command and both motion pages as they were and prints
\* an acknowledgment containing "Unknown Command!".
C7_Unknown ==
    (/\ pc = "done"
     /\ call.token \notin TableTokens
     /\ ~(call.token[1] = 77 /\ IsDigit(call.token[2])))
        => /\ bioloid_command = COMMAND_NOT_FOUND
           /\ last_bioloid_command = start.last_bioloid_command
           /\ current_motion_page = start.current_motion_page
           /\ last_motion_page = start.last_motion_page
           /\ Contains(tx, UNKNOWN_COMMAND)

\* "MW" (no digit after the M) has been dispatched from a state whose
\* command, last command and motion pages were all set by earlier frames.
C7_Witness ==
    /\ pc = "done" /\ frame = <<77, 87>>
    /\ call.token = <<77, 87, 32, 32>>
    /\ start.bioloid_command = 1 /\ start.current_motion_page = 2
    /\ bioloid_command = COMMAND_NOT_FOUND
    /\ Contains(tx, UNKNOWN_COMMAND)

MOTION_PAGE_COMMAND == <<77, 111, 116, 105, 111, 110, 80, 97, 103, 101,
                         67, 111, 109, 109, 97, 110, 100>>  \* "MotionPageCommand"

\* C11: when the payload is 'M' alone, the dispatch ends with the command
\* ordinal at the not-found value and the unknown-command acknowledgment:
\* not with ordinal 19 and not with the motion-page acknowledgment.
C11_MAloneNotFound ==
    (pc = "done" /\ frame = <<77>>)
        => /\ bioloid_command = COMMAND_NOT_FOUND
           /\ bioloid_command # 19
           /\ Contains(tx, UNKNOWN_COMMAND)
           /\ ~Contains(tx, MOTION_PAGE_COMMAND)


\* C14: for a payload 'M', digit d2, c3, c4: when c3 is no decimal digit
\* the dispatch sets current_motion_page to d2 whatever c4 is, and when c3
\* is a digit and c4 is none it sets it to 10*d2 + d3.
C14_StopAtNonDigit ==
    (/\ pc = "done" /\ Len(frame) = 4
     /\ frame[1] = 77 /\ IsDigit(frame[2]))
        => /\ ~IsDigit(frame[3])
                => current_motion_page = frame[2] - 48
           /\ (IsDigit(frame[3]) /\ ~IsDigit(frame[4]))
                => current_motion_page = 10 * (frame[2] - 48) + (frame[3] - 48)

\* The lowest table index whose entry equals the token.
LowestIndex(token) ==
    CHOOSE i \in 0..(NUMBER_OF_COMMANDS - 1) :
        /\ COMMANDSTR_POINTER[i + 1] = token
        /\ \A j \in 0..(i - 1) : COMMANDSTR_POINTER[j + 1] # token

\* C17: when the working token is a table entry, the dispatch sets
\* last_bioloid_command to the value bioloid_command had when the cycle
\* began and bioloid_command to the lowest index whose entry equals the
\* token, and leaves both motion pages unchanged.
C17_TableMatch ==
    (pc = "done" /\ call.token \in TableTokens)
        => /\ last_bioloid_command = start.bioloid_command
           /\ bioloid_command = LowestIndex(call.token)
           /\ current_motion_page = start.current_motion_page
           /\ last_motion_page = start.last_motion_page

\* "WFLS" has been dispatched from a state whose command was 1 and whose
\* last command was 19: the command is 7 and the last command 1.
C17_Witness ==
    /\ pc = "done" /\ frame = <<87, 70, 76, 83>>
    /\ start.bioloid_command = 1 /\ start.last_bioloid_command = 19
    /\ bioloid_command = 7 /\ last_bioloid_command = 1
    /\ current_motion_page = 2 /\ last_motion_page = 5

(***************************************************************************)
(* Claims about two frames in a row (SpecPair).                            *)
(***************************************************************************)
\* The state s with nothing in the buffer.
Emptied(s) == [s EXCEPT !.head = s.tail]

\* The working token of the dispatch of a frame that arrives in state s.
DispatchedToken(s, payload) ==
    SerialReceiveCommand(Deliver(s, payload \o <<CR>>)).token

\* C16: a frame with more than 4 payload bytes is classified as its first
\* four bytes are, and the frame that follows it has the working token and
\* the classification it would have had it arrived in an empty buffer.
C16_LongFrameIsolated ==
    /\ (pc = "done" /\ rxCount = Len(frame) + 1)
          => Classification(State)
                 = Classification(Dispatched(start, SubSeq(frame, 1, 4)))
    /\ (pc = "done" /\ rxCount > Len(frame) + 1)
          => /\ call.token = DispatchedToken(Emptied(start), frame)
             /\ Classification(State)
                    = Classification(Dispatched(Emptied(start), frame))

(***************************************************************************)
(* Claims about the steps of the program (Spec, SpecEcho).                 *)
(***************************************************************************)
\* C8: a call of SerialReceiveCommand made while flag_receive_ready is 0
\* changes none of the command values, the flag, the head, the tail or the
\* stored bytes, and writes nothing to the serial port.
C8_RepollNoop ==
    [][(call'.fn = "SerialReceiveCommand" /\ flag_receive_ready = 0)
          => (UNCHANGED progvars /\ tx' = <<>>)]_vars

\* SerialReceiveCommand has been called with the flag 0 and bytes in the
\* buffer, after an earlier frame was dispatched.
C8_Witness ==
    /\ call.fn = "SerialReceiveCommand" /\ call.arg = 0
    /\ gbSerialBufferHead # gbSerialBufferTail
    /\ bioloid_command = COMMAND_NOT_FOUND

\* C9: for every received byte other than the terminator, the receive
\* handler writes exactly that one byte to the serial port.
C9_EchoVerbatim ==
    (call.fn = "USART1_RX_vect" /\ call.arg # CR) => tx = <<call.arg>>

\* What the echo of a payload byte is: the byte itself, but CR LF for a
\* newline.
EchoOf(b) == IF b = LF THEN <<CR, LF>> ELSE <<b>>

RECURSIVE EchoAll(_)
EchoAll(bytes) ==
    IF bytes = <<>> THEN <<>> ELSE EchoOf(Head(bytes)) \o EchoAll(Tail(bytes))

\* The bytes of a frame's log before its terminator.
Payload(log) ==
    IF log # <<>> /\ log[Len(log)] = CR THEN SubSeq(log, 1, Len(log) - 1)
    ELSE log

\* C9, amended: for every received byte other than the terminator and the
\* newline the handler writes exactly that byte, and for a newline it writes
\* CR LF, whether or not the buffer had room for the byte; what it has
\* written for a frame is these echoes in arrival order, and the echo of the
\* frame's terminator comes after them.
C9_EchoInOrder ==
    /\ (call.fn = "USART1_RX_vect" /\ call.arg # CR) => tx = EchoOf(call.arg)
    /\ LET p == EchoAll(Payload(rxlog))
       IN  /\ Len(echolog) >= Len(p)
           /\ SubSeq(echolog, 1, Len(p)) = p
           /\ IF rxlog = Payload(rxlog) THEN echolog = p
              ELSE Len(echolog) > Len(p)

\* A frame began with a newline and filled the buffer; the letter that
\* arrived next was dropped by serial_put_queue and echoed.
C9_Witness ==
    /\ call.fn = "USART1_RX_vect" /\ call.arg = 87
    /\ call.n0 = MAXNUM_SERIALBUFF - 1
    /\ gbSerialBuffer[gbSerialBufferHead] = LF
    /\ rxlog[1] = LF /\ rxlog[Len(rxlog)] = 87
    /\ tx = <<87>>

\* C10: for a received terminator, the receive handler writes exactly
\* carriage-return and line-feed to the serial port.
C10_TerminatorEcho ==
    (call.fn = "USART1_RX_vect" /\ call.arg = CR) => tx = <<CR, LF>>

\* The functions of the poll context that take bytes from the buffer.
PollContext == {"SerialReceiveCommand", "serial_read", "std_getchar"}

\* C12: in every step, the tail changes only in the receive handler, the
\* head changes only in a function of the poll context, flag_receive_ready
\* goes from 0 to 1 only in the receive handler run for a terminator, and
\* from 1 to 0 only in SerialReceiveCommand.
C12_SingleWriter ==
    [][/\ gbSerialBufferTail' # gbSerialBufferTail
            => call'.fn = "USART1_RX_vect"
       /\ gbSerialBufferHead' # gbSerialBufferHead
            => call'.fn \in PollContext
       /\ (flag_receive_ready = 0 /\ flag_receive_ready' = 1)
            => (call'.fn = "USART1_RX_vect" /\ call'.arg = CR)
       /\ (flag_receive_ready = 1 /\ flag_receive_ready' = 0)
            => call'.fn = "SerialReceiveCommand"]_vars

\* The handler has filled the buffer and dropped a byte, and a dispatch
\* cycle has then moved the head and reset the flag.
C12_Witness ==
    /\ call.fn = "SerialReceiveCommand" /\ call.arg = 1
    /\ call.n0 = MAXNUM_SERIALBUFF - 1
    /\ rxCount = MaxRx
    /\ flag_receive_ready = 0
    /\ gbSerialBufferHead # 0 /\ gbSerialBufferTail # 0

\* The byte the i-th serial_get_queue of a dispatch cycle returns, given
\* the bytes the buffer holds when the cycle begins.
Popped(held, i) == IF i <= Len(held) THEN held[i] ELSE EMPTY

\* C13: in every dispatch cycle the working token contains no 0xFF, and
\* once a popped byte is 0xFF at one of the four token positions, that
\* position and every later position of the working token is a space.
C13_TokenNormalized ==
    [][(call'.fn = "SerialReceiveCommand" /\ flag_receive_ready = 1)
          => /\ \A i \in 1..4 : call'.token[i] # EMPTY
             /\ \A i \in 1..4 :
                    Popped(pending, i) = EMPTY
                        => \A j \in i..4 : call'.token[j] = SPACE]_vars

\* C15: whenever the receive handler has processed a terminator,
\* flag_receive_ready is 1 and 0xFF has been enqueued as the newest byte of
\* the buffer, whatever the number of bytes the buffer held.
C15_SentinelEnqueued ==
    (call.fn = "USART1_RX_vect" /\ call.arg = CR)
        => /\ flag_receive_ready = 1
           /\ Len(pending) = call.n0 + 1
           /\ pending[Len(pending)] = EMPTY
           /\ gbSerialBuffer[(gbSerialBufferTail + MAXNUM_SERIALBUFF - 1)
                                 % MAXNUM_SERIALBUFF] = EMPTY

(***************************************************************************)
(* Claims about the receive interrupt between the statements of the poll   *)
(* context (SpecIsr, SpecIsrFair, SpecLockFree).                           *)
(***************************************************************************)
\* C19: in every state where the dispatcher is not inside a dispatch cycle
\* and flag_receive_ready is 0, the buffer holds no 0xFF written by the
\* receive handler.
C19_NoFrameUnsignalled ==
    (poll.at = "idle" /\ flag_receive_ready = 0)
        => \A i \in 1..Len(pending) : pending[i] # EMPTY

\* The statements of a dispatch cycle before the flag is reset.
BeforeReset == {"get318", "get322", "get325", "scan182", "page203", "reset227"}

\* C18: a dispatch cycle takes at most 5 bytes from the buffer and resets
\* the flag exactly once, after the classification and before the
\* acknowledgment: the flag is 1 up to line 227 and 0 right after it, and no
\* other step takes it from 1 to 0.  With the main loop polling and no
\* terminator arriving any more, a cycle once begun runs to its end and
\* flag_receive_ready = 1 leads to the idle dispatcher with the flag 0,
\* which by the above is the work of the first cycle that begins after the
\* last terminator.
C18_ReturnsToIdle ==
    /\ [](poll.fn = "SerialReceiveCommand"
            => /\ poll.pops <= CyclePops
               /\ poll.at \in BeforeReset
                    => (poll.resets = 0 /\ flag_receive_ready = 1)
               /\ poll.at = "ack230" => poll.resets = 1)
    /\ [][/\ (flag_receive_ready = 1 /\ flag_receive_ready' = 0)
               => (poll.at = "reset227" /\ poll'.at = "ack230")
          /\ (poll.at = "reset227" /\ poll'.at = "ack230")
               => flag_receive_ready' = 0]_vars
    /\ (flag_receive_ready = 1 \/ poll.at # "idle")
          ~> (flag_receive_ready = 0 /\ poll.at = "idle")

\* A dispatch cycle that took 5 bytes has reset the flag once, after a
\* second terminator had arrived while it ran.
C18_Witness ==
    /\ poll.at = "ack230" /\ poll.pops = CyclePops /\ poll.resets = 1
    /\ flag_receive_ready = 0
    /\ poll.cycles = 1 /\ rxlog = <<CR>> /\ rxCount = MaxIsrRx
    /\ pending # <<>>

\* C20: with the receive interrupt between any two statements of
\* serial_get_queue and serial_get_qstate, head and tail stay within
\* 0..N-1; the bytes accepted and not yet returned are in their slots, from
\* the head on, unchanged (also the one serial_get_queue has read and not
\* yet returned); every byte returned is the oldest of them; and the
\* accepted bytes are the returned ones and these.
C20_LockFree ==
    /\ gbSerialBufferHead \in Slots /\ gbSerialBufferTail \in Slots
    /\ Len(pending) = serial_get_qstate(gbSerialBufferHead, gbSerialBufferTail)
    /\ pending = Contents(Len(pending))
    /\ poll.at = "get325" => (pending # <<>> /\ poll.data = Head(pending))
    /\ call.fn = "serial_get_queue" => call.ret = call.exp
    /\ nPut = nGet + Len(pending)

\* The handler has stored a byte, the tail having wrapped, while
\* serial_get_queue was between reading the byte at the head and moving
\* the head, and the buffer is full now.
C20_Witness ==
    /\ call.fn = "USART1_RX_vect" /\ ~call.same
    /\ poll.at = "get325"
    /\ gbSerialBufferTail < gbSerialBufferHead
    /\ Len(pending) = MAXNUM_SERIALBUFF - 1

====
